---- MODULE Spec2Model ----
(***************************************************************************)
(* Model of the file sharing item (src/src/filesharingitem.cpp) and of the *)
(* multi-source download orchestrator with its three transport adapters    *)
(* (src/src/filesharingdownloader.cpp).                                    *)
(*                                                                         *)
(* Qt signals between objects of one thread are direct calls, so one       *)
(* action is one event delivered by the event loop (or one call made by    *)
(* the application) together with every slot it runs synchronously.        *)
(* Strings whose content the code inspects (URIs, HTTP headers) are        *)
(* sequences of one-character strings.                                     *)
(***************************************************************************)
EXTENDS Integers, Sequences, FiniteSets, TLC

\* ------------------------------------------------------------------ bounds
\* longest source list of an incoming descriptor
MaxSources == 2
\* most bytes one transport delivers in a session
MaxBytes == 2
\* finished() emissions after which the consumer stops pulling
MaxFinished == 2
\* most HTTP uploads in flight at once
MaxUploads == 2
\* most download() calls on the item
MaxDownloads == 2

\* ----------------------------------------------------------------- strings
Min(a, b) == IF a < b THEN a ELSE b

\* QString::startsWith
StartsWith(s, p) == Len(s) >= Len(p) /\ SubSeq(s, 1, Len(p)) = p

\* index of the first c in s, or Len(s) + 1
RECURSIVE IndexOf(_, _, _)
IndexOf(s, c, i) ==
    IF i > Len(s) THEN Len(s) + 1
    ELSE IF s[i] = c THEN i
    ELSE IndexOf(s, c, i + 1)

\* QByteArray::split: the parts between separators, empty parts kept
RECURSIVE Split(_, _)
Split(s, c) ==
    LET i == IndexOf(s, c, 1)
    IN  IF i > Len(s) THEN <<s>>
        ELSE <<SubSeq(s, 1, i - 1)>> \o Split(SubSeq(s, i + 1, Len(s)), c)

Digits == <<"0", "1", "2", "3", "4", "5", "6", "7", "8", "9">>

IsDigit(c) == \E i \in 1..10 : Digits[i] = c

DigitVal(c) == (CHOOSE i \in 1..10 : Digits[i] = c) - 1

RECURSIVE DecimalValue(_)
DecimalValue(s) ==
    IF s = <<>> THEN 0
    ELSE 10 * DecimalValue(SubSeq(s, 1, Len(s) - 1)) + DigitVal(s[Len(s)])

\* QByteArray::toLongLong(&ok) on the unsigned decimal texts the model uses
ToLongLongOk(s) == s # <<>> /\ \A i \in 1..Len(s) : IsDigit(s[i])

ToLongLong(s) == IF ToLongLongOk(s) THEN DecimalValue(s) ELSE 0

\* ------------------------------------------------------------- range codec
StrBytes == <<"b", "y", "t", "e", "s">>

ParseFail == [ok |-> FALSE, start |-> 0, size |-> 0]

\* <<ok, start, size>> of a Content-Range header value
parseHttpRangeResponse(value) ==
    LET arr == Split(value, " ")
    IN  IF Len(arr) # 2 \/ arr[1] # StrBytes \/ Len(Split(arr[2], "-")) # 2
        THEN ParseFail
        ELSE LET arr2  == Split(arr[2], "-")
                 ok1   == ToLongLongOk(arr2[1])
                 start == ToLongLong(arr2[1])
                 arr3  == Split(arr2[2], "/")
                 ok2   == ok1 /\ ToLongLongOk(arr3[1])
                 size  == ToLongLong(arr3[1]) - start + 1
             IN  IF ~ok2 \/ size < 0 THEN ParseFail
                 ELSE [ok |-> TRUE, start |-> start, size |-> size]

\* ------------------------------------------------------------------- URIs
StrHttp == <<"h", "t", "t", "p">>
StrXmpp == <<"x", "m", "p", "p">>
StrFtp == <<"f", "t", "p">>
StrCid == <<"c", "i", "d">>
StrJingleFt == <<"j", "i", "n", "g", "l", "e", "-", "f", "t">>

\* http:a
UriHttp == StrHttp \o <<":", "a">>
\* https:u, the URL an upload slot hands back
UriUpload == StrHttp \o <<"s", ":", "u">>
\* ftp:f
UriFtp == StrFtp \o <<":", "f">>
\* xmpp:p?jingle-ft
UriJingle == StrXmpp \o <<":", "p", "?">> \o StrJingleFt
\* xmpp:p?x
UriJingleBad == StrXmpp \o <<":", "p", "?", "x">>
\* cid:c
UriBob == StrCid \o <<":", "c">>
\* file:u, a scheme no transport handles
UriOther == <<"f", "i", "l", "e", ":", "u">>

SourceUris == {UriHttp, UriFtp, UriJingle, UriJingleBad, UriBob, UriOther}

\* QUrl::scheme
UrlScheme(u) == SubSeq(u, 1, IndexOf(u, ":", 1) - 1)

\* first key of the URI's query, with '=' and ';' as delimiters
UrlQueryFirstKey(u) ==
    LET i  == IndexOf(u, "?", 1)
        qs == IF i > Len(u) THEN <<>> ELSE SubSeq(u, i + 1, Len(u))
    IN  Split(Split(qs, ";")[1], "=")[1]

sourceType(uri) ==
    IF StartsWith(uri, StrHttp) THEN "HTTP"
    ELSE IF StartsWith(uri, StrXmpp) THEN "Jingle"
    ELSE IF StartsWith(uri, StrFtp) THEN "FTP"
    ELSE IF StartsWith(uri, StrCid) THEN "BOB"
    ELSE "None"

\* int(SourceType): the enum lists the kinds from lowest priority to highest
SourceTypeInt(t) ==
    CASE t = "None" -> 0
      [] t = "BOB" -> 1
      [] t = "FTP" -> 2
      [] t = "Jingle" -> 3
      [] t = "HTTP" -> 4

\* QMultiMap::insert: before the entries whose key is not smaller
MultiMapInsert(sorted, u) ==
    LET k   == SourceTypeInt(sourceType(u))
        pos == Cardinality({i \in 1..Len(sorted) :
                               SourceTypeInt(sourceType(sorted[i])) < k})
    IN  SubSeq(sorted, 1, pos) \o <<u>> \o SubSeq(sorted, pos + 1, Len(sorted))

RECURSIVE SortInto(_, _)
SortInto(sorted, uris) ==
    IF uris = <<>> THEN sorted
    ELSE SortInto(IF sourceType(uris[1]) # "None"
                  THEN MultiMapInsert(sorted, uris[1])
                  ELSE sorted,
                  Tail(uris))

\* std::reverse
Reverse(q) == [i \in 1..Len(q) |-> q[Len(q) + 1 - i]]

\* the list is handed on in the order it was given
SourcesAsGiven(uris) == uris

sortSourcesByPriority(uris) == SortInto(<<>>, uris)

\* ------------------------------------------------------------------ state
VARIABLES
    item,   \* the FileSharingItem
    cache,  \* the file cache entry of the item's digest, behind FileSharingManager
    hfu,    \* HttpFileUpload objects in flight
    fsd,    \* the FileShareDownloader the first download() call created
    dl,     \* its active AbstractFileShareDownloader (d->downloader)
    log,    \* what was emitted and what the environment did so far
    env     \* the documents directory and how the application opens the stream

vars == <<item, cache, hfu, fsd, dl, log, env>>

World == [item |-> item, cache |-> cache, hfu |-> hfu, fsd |-> fsd, dl |-> dl,
          log |-> log, env |-> env]

Apply(w) ==
    /\ item' = w.item
    /\ cache' = w.cache
    /\ hfu' = w.hfu
    /\ fsd' = w.fsd
    /\ dl' = w.dl
    /\ log' = w.log
    /\ env' = w.env

\* d->downloader = nullptr
NoDl ==
    [kind |-> "None", uri |-> <<>>, lastError |-> "", rangeStart |-> 0,
     rangeSize |-> 0, pendingFailed |-> FALSE, gotMeta |-> FALSE,
     reply |-> "null", running |-> FALSE,
     app |-> FALSE, connection |-> FALSE, active |-> FALSE, declined |-> FALSE,
     loading |-> FALSE, destroyed |-> FALSE, connected |-> FALSE,
     buf |-> <<>>]

\* the FileShareDownloader before download() created it
NoFsd ==
    [state |-> "none", openMode |-> "NotOpen", uris |-> <<>>, tmpFile |-> FALSE,
     staged |-> <<>>, dstFileName |-> <<>>, lastError |-> "", rangeStart |-> 0,
     rangeSize |-> 0, metaReady |-> FALSE, success |-> FALSE]

NoLog ==
    [finished |-> <<>>, metaDataChanged |-> 0, disconnected |-> 0,
     delivered |-> 0, started |-> <<>>, failures |-> 0, successDeclared |-> 0,
     faulted |-> FALSE, aborted |-> FALSE, ioError |-> FALSE,
     downloadFinished |-> 0, publishFinished |-> 0, uploads |-> 0,
     created |-> <<>>, openRet |-> "none", lastOp |-> "other",
     publishCalled |-> FALSE, removed |-> <<>>,
     reference |-> [called |-> FALSE, valid |-> FALSE, of |-> <<>>,
                    uri |-> <<>>, sources |-> <<>>]]

NoEntry ==
    [present |-> FALSE, link |-> <<>>, uris |-> <<>>, file |-> <<>>,
     src |-> <<>>, ttl |-> "", writes |-> 0]

\* -------------------------------------------------------- transport adapters
\* AbstractFileShareDownloader::isRanged
DlIsRanged(a) == a.rangeSize # 0 \/ a.rangeStart # 0

downloadError(w, err) ==
    [w EXCEPT !.dl.lastError = IF err # "" THEN err ELSE @,
              !.dl.pendingFailed = TRUE]

\* NAMFileShareDownloader::namFailed: the reply is left for deleteLater and the
\* adapter keeps its pointer
namFailed(w, err) ==
    downloadError([w EXCEPT !.dl.reply = "dangling", !.dl.running = FALSE,
                            !.dl.buf = <<>>], err)

\* what the roster and the Jingle manager answer when an adapter starts
StartEnvs ==
    {[online |-> TRUE, ftEnabled |-> TRUE], [online |-> FALSE, ftEnabled |-> TRUE],
     [online |-> TRUE, ftEnabled |-> FALSE]}

NAMStart(w) == [w EXCEPT !.dl.reply = "live", !.dl.running = TRUE]

JingleStart(w, peers) ==
    IF ~peers.online THEN downloadError(w, "Jingle data source is offline")
    ELSE IF UrlQueryFirstKey(w.dl.uri) # StrJingleFt
    THEN downloadError(w, "Invalid Jingle-FT URI")
    ELSE IF ~peers.ftEnabled
    THEN downloadError(w, "Jingle file transfer is disabled")
    ELSE [w EXCEPT !.dl.app = TRUE]

BOBStart(w, peers) ==
    IF ~peers.online THEN downloadError(w, "Bits Of Binary data source is offline")
    ELSE [w EXCEPT !.dl.loading = TRUE]

DlStart(w, peers) ==
    CASE w.dl.kind = "NAM" -> NAMStart(w)
      [] w.dl.kind = "Jingle" -> JingleStart(w, peers)
      [] w.dl.kind = "BOB" -> BOBStart(w, peers)

\* the results of using a pointer to an object that deleteLater was called on
UbOutcomes == {"alive", "fault"}

NAMAbort(w, ub) ==
    IF w.dl.reply = "null" THEN w
    ELSE IF w.dl.reply = "dangling" /\ ub = "fault"
    THEN [w EXCEPT !.log.faulted = TRUE]
    ELSE [w EXCEPT !.dl.reply = "null", !.dl.running = FALSE, !.dl.buf = <<>>]

JingleAbort(w) ==
    IF w.dl.app
    THEN [w EXCEPT !.dl.connection = FALSE, !.dl.app = FALSE, !.dl.active = FALSE,
                   !.dl.buf = <<>>]
    ELSE w

BOBAbort(w) == [w EXCEPT !.dl.destroyed = TRUE]

DlAbort(w, ub) ==
    CASE w.dl.kind = "NAM" -> NAMAbort(w, ub)
      [] w.dl.kind = "Jingle" -> JingleAbort(w)
      [] w.dl.kind = "BOB" -> BOBAbort(w)

DlIsConnected(a) ==
    CASE a.kind = "NAM" -> a.reply # "null" /\ a.running
      [] a.kind = "Jingle" -> a.connection /\ a.app /\ a.active
      [] a.kind = "BOB" -> a.connected

DlBytesAvailable(a) ==
    CASE a.kind = "NAM" -> IF a.reply # "null" THEN Len(a.buf) ELSE 0
      [] a.kind = "Jingle" -> IF a.connection THEN Len(a.buf) ELSE 0
      [] a.kind = "BOB" -> Len(a.buf)

\* bytes one read(data, maxSize) takes out of the transport
DlReadCount(a, maxSize) == Min(maxSize, DlBytesAvailable(a))

\* ------------------------------------------------------------ cache bridge
\* FILE_TTL and TEMP_TTL name the two lifetimes an entry is stored with;
\* file: the entry's name inside the cache; src: the path that was moved in
CacheFile == <<"D">>

moveToCache(w, fileName, uris, ttl) ==
    [w EXCEPT !.cache = [present |-> TRUE, link |-> <<>>, uris |-> uris,
                         file |-> CacheFile, src |-> fileName, ttl |-> ttl,
                         writes |-> @.writes + 1]]

saveToCache(w, link, uris, ttl) ==
    [w EXCEPT !.cache = [present |-> TRUE, link |-> link, uris |-> uris,
                         file |-> <<>>, src |-> <<>>, ttl |-> ttl,
                         writes |-> @.writes + 1]]

\* ------------------------------------------------- FileShareDownloader
FsdFileName(d) == IF d.success THEN d.dstFileName ELSE <<>>

FsdIsOpen(d) == d.openMode # "NotOpen"

\* the finished() lambda without its _downloader = nullptr
ItemDownloadFinishedKeeps(w) ==
    IF ~w.item.connected THEN w
    ELSE LET w1 == [w EXCEPT !.item.connected = FALSE,
                             !.fsd.state = "deleteLater",
                             !.log.downloadFinished = @ + 1]
         IN  IF ~w.fsd.success THEN w1
             ELSE moveToCache(w1, FsdFileName(w.fsd), w.item.uris, "FILE_TTL")

\* the lambda FileSharingItem::download connects to finished()
ItemDownloadFinished(w) ==
    IF ~w.item.connected THEN w
    ELSE LET dlFileName == FsdFileName(w.fsd)
             success    == w.fsd.success
             w1 == [w EXCEPT !.item.connected = FALSE,
                             !.item.downloader = "null",
                             !.fsd.state = "deleteLater",
                             !.log.downloadFinished = @ + 1]
         IN  IF ~success THEN w1
             ELSE moveToCache(w1, dlFileName, w.item.uris, "FILE_TTL")

\* emit q->finished()
EmitFinished(w) ==
    ItemDownloadFinished([w EXCEPT !.log.finished = Append(@, w.fsd.success)])

NewDl(kind, uri, rangeStart, rangeSize) ==
    [NoDl EXCEPT !.kind = kind, !.uri = uri, !.rangeStart = rangeStart,
                 !.rangeSize = rangeSize]

DlKindOf(type) ==
    CASE type \in {"HTTP", "FTP"} -> "NAM"
      [] type = "BOB" -> "BOB"
      [] type = "Jingle" -> "Jingle"
      [] OTHER -> "None"

startNextDownloader(w, peers) ==
    LET w1 == IF w.dl.kind # "None"
              THEN [w EXCEPT !.fsd.lastError = w.dl.lastError, !.dl = NoDl]
              ELSE w
    IN  IF w1.fsd.uris = <<>>
        THEN EmitFinished([w1 EXCEPT
                 !.fsd.success = FALSE,
                 !.fsd.lastError =
                     IF @ = "" THEN "Download sources are not given" ELSE @])
        ELSE LET uri  == w1.fsd.uris[Len(w1.fsd.uris)]
                 kind == DlKindOf(sourceType(uri))
                 w2   == [w1 EXCEPT
                             !.fsd.uris = SubSeq(@, 1, Len(@) - 1)]
             IN  IF kind = "None"
                 THEN EmitFinished([w2 EXCEPT
                          !.fsd.lastError = "Unhandled downloader",
                          !.fsd.success = FALSE])
                 ELSE DlStart([w2 EXCEPT
                          !.dl = NewDl(kind, uri, w2.fsd.rangeStart,
                                       w2.fsd.rangeSize),
                          !.log.started = Append(@, uri),
                          !.log.delivered = 0], peers)

\* the next source is tried whether or not metadata was reported
OnFailedFallsBack(w, peers) ==
    startNextDownloader([w EXCEPT !.fsd.success = FALSE,
                                  !.dl.pendingFailed = FALSE,
                                  !.log.failures = @ + 1], peers)

\* the slot of the adapter's failed()
OnFailed(w, peers) ==
    LET w1 == [w EXCEPT !.fsd.success = FALSE, !.dl.pendingFailed = FALSE,
                        !.log.failures = @ + 1]
    IN  IF w1.fsd.metaReady
        THEN EmitFinished([w1 EXCEPT !.fsd.lastError = w1.dl.lastError])
        ELSE startNextDownloader(w1, peers)

\* the name of the staging file the metaDataChanged() slot opens next to the
\* destination: "dl-" + fi.fileName()
StagingName(dstFileName) == <<"dl-">> \o dstFileName

\* a staging file that does not open is only recorded as an error
OnMetaDataChangedSilent(w) ==
    LET w1 == [w EXCEPT !.fsd.metaReady = TRUE]
    IN  IF ~w.env.canCreate
        THEN [w1 EXCEPT !.fsd.lastError = "staging file error",
                        !.fsd.tmpFile = FALSE,
                        !.log.ioError = TRUE]
        ELSE [w1 EXCEPT !.fsd.tmpFile = TRUE,
                        !.fsd.staged = <<>>,
                        !.fsd.rangeStart = w1.dl.rangeStart,
                        !.fsd.rangeSize = w1.dl.rangeSize,
                        !.log.metaDataChanged = @ + 1]

\* the slot of the adapter's metaDataChanged()
OnMetaDataChanged(w) ==
    LET w1 == [w EXCEPT !.fsd.metaReady = TRUE]
    IN  IF ~w.env.canCreate
        THEN LET w2 == DlAbort([w1 EXCEPT !.fsd.lastError = "staging file error",
                                          !.fsd.tmpFile = FALSE,
                                          !.log.ioError = TRUE], "alive")
             IN  EmitFinished([w2 EXCEPT !.fsd.success = FALSE])
        ELSE [w1 EXCEPT !.fsd.tmpFile = TRUE,
                        !.fsd.staged = <<>>,
                        !.fsd.rangeStart = w1.dl.rangeStart,
                        !.fsd.rangeSize = w1.dl.rangeSize,
                        !.log.metaDataChanged = @ + 1]

\* the slot of the adapter's disconnected()
OnDisconnected(w) ==
    LET w1 == [w EXCEPT !.log.disconnected = @ + 1]
    IN  IF DlBytesAvailable(w1.dl) = 0 THEN EmitFinished(w1) ELSE w1

\* readData without the test of what tmpFile->write returned
readDataUnchecked(w, maxSize) ==
    IF ~w.fsd.tmpFile \/ w.dl.kind = "None" THEN w
    ELSE LET bytesRead == DlReadCount(w.dl, maxSize)
             data      == SubSeq(w.dl.buf, 1, bytesRead)
             written   == Min(bytesRead, w.env.room)
             w1 == [w EXCEPT
                       !.dl.buf = SubSeq(@, bytesRead + 1, Len(@)),
                       !.fsd.staged = @ \o SubSeq(data, 1, written),
                       !.env.room = @ - written]
         IN  IF ~DlIsConnected(w1.dl) /\ DlBytesAvailable(w1.dl) = 0
             THEN EmitFinished([w1 EXCEPT !.fsd.success = TRUE,
                                          !.log.successDeclared = @ + 1])
             ELSE w1

\* the number of bytes FileShareDownloader::readData returns
readDataReturns(w, maxSize) ==
    IF ~w.fsd.tmpFile \/ w.dl.kind = "None" THEN 0
    ELSE LET bytesRead == DlReadCount(w.dl, maxSize)
             written   == Min(bytesRead, w.env.room)
         IN  IF written # bytesRead THEN 0 ELSE bytesRead

\* FileShareDownloader::readData; the staging file takes env.room more bytes
readData(w, maxSize) ==
    IF ~w.fsd.tmpFile \/ w.dl.kind = "None" THEN w
    ELSE LET bytesRead == DlReadCount(w.dl, maxSize)
             data      == SubSeq(w.dl.buf, 1, bytesRead)
             written   == Min(bytesRead, w.env.room)
             w1 == [w EXCEPT
                       !.dl.buf = SubSeq(@, bytesRead + 1, Len(@)),
                       !.fsd.staged = @ \o SubSeq(data, 1, written),
                       !.env.room = @ - written]
         IN  IF written # bytesRead
             THEN [DlAbort(w1, "alive") EXCEPT
                      !.fsd.lastError = "staging file error",
                      !.log.ioError = TRUE]
             ELSE IF ~DlIsConnected(w1.dl) /\ DlBytesAvailable(w1.dl) = 0
             THEN EmitFinished([w1 EXCEPT !.fsd.success = TRUE,
                                          !.log.successDeclared = @ + 1])
             ELSE w1

\* the file name open() asks for, and what the loop makes of it
FileBase == <<"f">>

Numbered(baseName, index) == baseName \o <<"-">> \o <<Digits[index + 1]>>

\* the directories open() may find: no such file, the name taken, both taken
DocDirs == {{}, {FileBase}, {FileBase, Numbered(FileBase, 1)}}

\* docDir: the names taken in the documents directory; mode: the mode the
\* application opens the stream with; room: the bytes the directory still
\* takes; canCreate: whether a staging file can be opened in it
EnvDefault ==
    [docDir |-> {}, mode |-> "ReadOnly", room |-> MaxBytes, canCreate |-> TRUE]

\* the staging directory fails: no file can be opened, or the disk fills up
EnvsStagingFails ==
    {[EnvDefault EXCEPT !.canCreate = FALSE]}
    \cup {[EnvDefault EXCEPT !.room = r] : r \in 0..(MaxBytes - 1)}

\* the destination name is taken, or the stream is not opened for reading
EnvsOpenVaries ==
    {[EnvDefault EXCEPT !.docDir = dd] : dd \in DocDirs}
    \cup {[EnvDefault EXCEPT !.mode = "WriteOnly"]}

\* the loop of open(): index stays 1, so a second collision never ends
OpenLoopHangs(existing) ==
    FileBase \in existing /\ Numbered(FileBase, 1) \in existing

OpenFileName(existing) ==
    IF FileBase \in existing THEN Numbered(FileBase, 1) ELSE FileBase

open(w, mode, peers) ==
    IF w.fsd.uris = <<>> /\ mode # "ReadOnly"
    THEN [w EXCEPT !.fsd.success = FALSE, !.log.openRet = "false"]
    ELSE IF FsdIsOpen(w.fsd) THEN [w EXCEPT !.log.openRet = "true"]
    ELSE IF OpenLoopHangs(w.env.docDir) THEN [w EXCEPT !.fsd.state = "hung"]
    ELSE startNextDownloader(
             [w EXCEPT !.fsd.dstFileName = OpenFileName(w.env.docDir),
                       !.fsd.openMode = mode,
                       !.log.openRet = "true"], peers)

abort(w, ub) == IF w.dl.kind # "None" THEN DlAbort(w, ub) ELSE w

\* ~FileShareDownloader, then the destroyed() slot of the item
FsdDestroy(w, ub) ==
    LET w1 == abort(w, ub)
    IN  IF w1.log.faulted THEN w1
        ELSE [w1 EXCEPT !.fsd.state = "destroyed",
                        !.fsd.tmpFile = FALSE,
                        !.dl = NoDl,
                        !.item.downloader =
                            IF w1.item.connected THEN "null" ELSE @,
                        !.item.connected = FALSE]

\* ------------------------------------------------------- FileSharingItem
\* file names are sequences of path pieces
CacheDir == <<"cache", "/">>
TempPath == <<"tmp", "/", "psi-XXXXXX">>
LocalPath == <<"home", "/", "doc">>
LinkPath == <<"home", "/", "ext">>
RemoteName == <<"f">>

NoItem ==
    [fileType |-> "None", flags |-> {}, fileName |-> <<>>, fileSize |-> 0,
     uris |-> <<>>, downloader |-> "null", connected |-> FALSE,
     tmpWritten |-> FALSE, alive |-> TRUE]

\* the cache entries an item may find for its digest
EntryPublished ==
    [NoEntry EXCEPT !.present = TRUE, !.file = CacheFile, !.ttl = "TEMP_TTL"]
EntryUploaded ==
    [EntryPublished EXCEPT !.uris = <<UriUpload>>]
EntryDownloaded ==
    [EntryPublished EXCEPT !.uris = <<UriHttp, UriFtp>>, !.ttl = "FILE_TTL"]
EntryLinked ==
    [EntryPublished EXCEPT !.link = LinkPath, !.file = <<>>,
                           !.uris = <<UriUpload>>, !.ttl = "FILE_TTL"]

CacheEntries == {EntryPublished, EntryUploaded, EntryDownloaded, EntryLinked}

RECURSIVE UriFlags(_)
UriFlags(uris) ==
    IF uris = <<>> THEN {}
    ELSE (IF StartsWith(UrlScheme(uris[1]), StrHttp) THEN {"HttpFinished"}
          ELSE IF UrlScheme(uris[1]) = StrXmpp THEN {"JingleFinished"}
          ELSE {})
         \cup UriFlags(Tail(uris))

\* FileSharingItem::initFromCache on a found entry
initFromCache(it, entry) ==
    [it EXCEPT
        !.flags = {"SizeKnown", "PublishNotified"} \cup UriFlags(entry.uris),
        !.fileType = IF entry.link = <<>> THEN "LocalFile" ELSE "LocalLink",
        !.fileName = IF entry.link = <<>> THEN CacheDir \o entry.file
                     ELSE entry.link,
        !.fileSize = MaxBytes,
        !.uris = entry.uris]

\* FileSharingItem(cache, acc, manager)
ItemFromCache(entry) == initFromCache(NoItem, entry)

\* FileSharingItem(ms, from, acc, manager); size = -1: no size in the descriptor
ItemFromMediaSharing(sources, size, entry) ==
    LET it0 == [NoItem EXCEPT !.fileType = "RemoteFile"]
        it1 == IF entry.present THEN initFromCache(it0, entry) ELSE it0
    IN  [it1 EXCEPT
            !.flags = IF size >= 0 THEN @ \cup {"SizeKnown"} ELSE @,
            !.fileSize = IF size >= 0 THEN size ELSE @,
            !.fileName = RemoteName,
            !.uris = sources]

\* the content is written to a temporary file whatever the cache holds
ItemFromDataFresh(entry) ==
    [NoItem EXCEPT !.fileType = "TempFile", !.flags = {"SizeKnown"},
                   !.fileSize = MaxBytes, !.fileName = TempPath,
                   !.tmpWritten = TRUE]

\* FileSharingItem(image, ...) and FileSharingItem(mime, data, metaData, ...);
\* tmpWritten: the constructor wrote a QTemporaryFile
ItemFromData(entry) ==
    LET it0 == [NoItem EXCEPT !.fileType = "TempFile", !.flags = {"SizeKnown"}]
    IN  IF entry.present THEN initFromCache(it0, entry)
        ELSE [it0 EXCEPT !.fileSize = MaxBytes, !.fileName = TempPath,
                         !.tmpWritten = TRUE]

\* FileSharingItem(fileName, ...)
ItemFromFile(entry) ==
    LET it0 == [NoItem EXCEPT !.fileType = "LocalLink", !.flags = {"SizeKnown"},
                              !.fileName = LocalPath]
    IN  IF entry.present THEN initFromCache(it0, entry)
        ELSE [it0 EXCEPT !.fileSize = MaxBytes]

\* the destructor removes whatever file the item names
ItemRemovesAny(it) == it.fileName

\* the file ~FileSharingItem removes; <<>>: none
ItemRemoves(it) ==
    IF it.fileType = "TempFile" /\ it.fileName # <<>> THEN it.fileName ELSE <<>>

\* ~FileSharingItem, then ~QObject deleting the uploads and the orchestrator
ItemDestroy(w, ub) ==
    LET w1 == [w EXCEPT !.log.removed = ItemRemoves(w.item), !.hfu = 0]
        w2 == IF w1.fsd.state \in {"alive", "deleteLater"}
              THEN FsdDestroy(w1, ub) ELSE w1
    IN  [w2 EXCEPT !.item.alive = FALSE]

\* the lambda checkFinished of FileSharingItem::publish
checkFinished(w) ==
    IF "PublishNotified" \notin w.item.flags
       /\ {"HttpFinished", "JingleFinished"} \subseteq w.item.flags
    THEN LET w1 == IF w.item.fileType = "TempFile"
                   THEN LET wc == moveToCache(w, w.item.fileName, w.item.uris,
                                              "TEMP_TTL")
                        IN  [wc EXCEPT
                                !.item.fileType = "LocalFile",
                                !.item.fileName = CacheDir \o wc.cache.file]
                   ELSE saveToCache(w, w.item.fileName, w.item.uris, "FILE_TTL")
         IN  [w1 EXCEPT !.item.flags = @ \cup {"PublishNotified"},
                        !.log.publishFinished = @ + 1]
    ELSE w

\* publish() that does not look at what is finished already
publishUnguarded(w, discoNotFound) ==
    LET w1 == IF discoNotFound
              THEN checkFinished(
                       [w EXCEPT !.item.flags = @ \cup {"HttpFinished"}])
              ELSE [w EXCEPT !.hfu = @ + 1, !.log.uploads = @ + 1]
    IN  checkFinished([w1 EXCEPT !.item.flags = @ \cup {"JingleFinished"}])

\* FileSharingItem::publish; discoNotFound: the upload service is known absent
publish(w, discoNotFound) ==
    LET w1 == IF "HttpFinished" \notin w.item.flags
              THEN IF discoNotFound
                   THEN checkFinished(
                            [w EXCEPT !.item.flags = @ \cup {"HttpFinished"}])
                   ELSE [w EXCEPT !.hfu = @ + 1, !.log.uploads = @ + 1]
              ELSE w
    IN  IF "JingleFinished" \notin w1.item.flags
        THEN checkFinished([w1 EXCEPT !.item.flags = @ \cup {"JingleFinished"}])
        ELSE w1

\* the lambda connected to HttpFileUpload::finished
OnUploadFinished(w, ok) ==
    checkFinished([w EXCEPT
        !.hfu = @ - 1,
        !.item.flags = @ \cup {"HttpFinished"},
        !.item.uris = IF ok THEN Append(@, UriUpload) ELSE @])

\* xmpp:m?jingle-ft, the peer-transfer URI of the account's own full JID
UriSelf == StrXmpp \o <<":", "m", "?">> \o StrJingleFt

\* the descriptor lists the sources as sortSourcesByPriority returns them
toReferenceAscending(w, hasResource) ==
    LET uris == sortSourcesByPriority(Append(w.item.uris, UriSelf))
    IN  [w EXCEPT !.log.reference =
            IF ~hasResource
            THEN [called |-> TRUE, valid |-> FALSE, of |-> w.item.uris,
                  uri |-> <<>>, sources |-> <<>>]
            ELSE [called |-> TRUE, valid |-> TRUE, of |-> w.item.uris,
                  uri |-> uris[1], sources |-> uris]]

\* FileSharingItem::toReference; hasResource: the account has a resource of
\* its own online; log.reference: the Reference returned (its URI and the
\* sources of its MediaSharing) and, in "of", the item's list before the call
toReference(w, hasResource) ==
    LET uris == Reverse(sortSourcesByPriority(Append(w.item.uris, UriSelf)))
    IN  [w EXCEPT !.log.reference =
            IF ~hasResource
            THEN [called |-> TRUE, valid |-> FALSE, of |-> w.item.uris,
                  uri |-> <<>>, sources |-> <<>>]
            ELSE [called |-> TRUE, valid |-> TRUE, of |-> w.item.uris,
                  uri |-> uris[1], sources |-> uris]]

\* the request is taken as it was made
KeepRanged(w, isRanged, start, size) == isRanged

\* the first statement of download(): the whole known size from 0 is no range
NormalizeRanged(w, isRanged, start, size) ==
    IF isRanged /\ "SizeKnown" \in w.item.flags /\ start = 0
       /\ size = w.item.fileSize
    THEN FALSE ELSE isRanged

\* every whole-file orchestrator takes the place of the tracked one
TrackedAlways(w, ranged) == ~ranged

\* download() keeps the new orchestrator in _downloader: not a ranged one, and
\* not while another one is kept
Tracked(w, ranged) == ~ranged /\ w.item.downloader = "null"

\* FileSharingItem::download: the orchestrator it creates and whether the item
\* tracks it
download(w, isRanged, start, size) ==
    LET ranged  == NormalizeRanged(w, isRanged, start, size)
        first   == w.fsd.state = "none"
        tracked == Tracked(w, ranged)
        made    == [isRanged |-> isRanged, start |-> start, size |-> size,
                    rangeStart |-> IF ranged THEN start ELSE 0,
                    rangeSize |-> IF ranged THEN size ELSE 0,
                    tracked |-> tracked]
        w1 == [w EXCEPT !.log.created = Append(@, made)]
        w2 == IF first
              THEN [w1 EXCEPT
                       !.fsd = [NoFsd EXCEPT
                                   !.state = "alive",
                                   !.uris = sortSourcesByPriority(w.item.uris),
                                   !.rangeStart = made.rangeStart,
                                   !.rangeSize = made.rangeSize]]
              ELSE w1
    IN  IF tracked
        THEN [w2 EXCEPT !.item.downloader = IF first THEN "fsd" ELSE "other",
                        !.item.connected = first]
        ELSE w2

\* ------------------------------------------------------------------- Init
RECURSIVE SeqsUpTo(_, _)
SeqsUpTo(S, n) ==
    IF n = 0 THEN {<<>>}
    ELSE LET shorter == SeqsUpTo(S, n - 1)
         IN  shorter \cup {Append(q, x) : q \in shorter, x \in S}

\* the source lists of incoming descriptors
SourceLists == SeqsUpTo(SourceUris, MaxSources)

ShortLists == {l \in SourceLists : Len(l) <= 1}

\* declared sizes of incoming descriptors; -1: none
DeclaredSizes == {-1, MaxBytes}

\* The download sessions: an item made from an incoming descriptor that is not
\* in the cache.  Every source list meets every failure of the staging
\* directory; the lists of at most one source meet the descriptors without a
\* size and the other ways to open the stream.
SessionInit ==
    /\ cache = NoEntry
    /\ hfu = 0
    /\ fsd = NoFsd
    /\ dl = NoDl
    /\ log = NoLog
    /\ \/ /\ env \in {EnvDefault} \cup EnvsStagingFails
          /\ \E srcs \in SourceLists :
                item = ItemFromMediaSharing(srcs, MaxBytes, cache)
       \/ /\ env \in EnvsOpenVaries
          /\ \E srcs \in ShortLists, size \in DeclaredSizes :
                item = ItemFromMediaSharing(srcs, size, cache)

\* ---------------------------------------------------------------- actions
Running == ~log.faulted /\ fsd.state # "hung" /\ item.alive

FsdLive == Running /\ fsd.state \in {"alive", "deleteLater"}

\* lastOp tells a publish() call on a finished publication from every other step
Step(op, w) ==
    Apply([w EXCEPT !.log.lastOp = IF op = "republish" THEN op ELSE "other"])

\* the requests download() is called with: no range, the whole declared
\* size from 0, an offset with no length
RangeRequests == {<<FALSE, 0, 0>>, <<TRUE, 0, MaxBytes>>, <<TRUE, 1, 0>>}

\* the application calls item->publish()
Publish ==
    /\ Running
    /\ item.fileType # "RemoteFile"
    /\ "HttpFinished" \in item.flags \/ hfu < MaxUploads
    /\ \E notFound \in BOOLEAN :
          Step(IF {"HttpFinished", "JingleFinished"} \subseteq item.flags
               THEN "republish" ELSE "publish",
               [publish(World, notFound) EXCEPT !.log.publishCalled = TRUE])

\* an upload ends, with or without a slot URL
UploadFinished ==
    /\ Running
    /\ hfu > 0
    /\ \E ok \in BOOLEAN : Step("uploadFinished", OnUploadFinished(World, ok))

\* the application calls item->download(isRanged, start, size) for the first time
Download ==
    /\ Running
    /\ fsd.state = "none"
    /\ \E r \in RangeRequests :
          Step("download", download(World, r[1], r[2], r[3]))

\* the application calls item->download(isRanged, start, size) once more
DownloadAgain ==
    /\ Running
    /\ fsd.state # "none"
    /\ Len(log.created) < MaxDownloads
    /\ \E r \in RangeRequests :
          Step("download", download(World, r[1], r[2], r[3]))

\* the application calls downloader->open(mode)
Open ==
    /\ FsdLive
    /\ \E peers \in StartEnvs : Step("open", open(World, env.mode, peers))

\* the consumer reads: QIODevice::read calls readData on a device open for reading
Pull ==
    /\ FsdLive
    /\ fsd.openMode = "ReadOnly"
    /\ Len(log.finished) < MaxFinished
    /\ \E maxSize \in 1..MaxBytes : Step("readData", readData(World, maxSize))

\* the application calls downloader->abort(); log.aborted: it reached an adapter
Abort ==
    /\ FsdLive
    /\ \E ub \in UbOutcomes :
          Step("abort", [abort(World, ub) EXCEPT
                            !.log.aborted = @ \/ dl.kind # "None"])

\* delete downloader, by its owner or by deleteLater
Destroy ==
    /\ FsdLive
    /\ \E ub \in UbOutcomes : Step("destroy", FsdDestroy(World, ub))

\* the queued failed() of downloadError reaches the orchestrator
DeliverFailed ==
    /\ FsdLive
    /\ dl.pendingFailed
    /\ \E peers \in StartEnvs : Step("failed", OnFailed(World, peers))

\* Content-Range values a server may send with a 206
HdrFull == StrBytes \o <<" ", "0", "-", "1", "/", "2">>
HdrBad == StrBytes \o <<" ", "1", "-", "x", "/", "2">>
ContentRanges == {<<>>, HdrFull, HdrBad}
HttpStatuses == {200, 203, 206, 404}

\* the lambda connected to QNetworkReply::metaDataChanged
NAMOnMetaData(w0, status, ba) ==
    LET w  == [w0 EXCEPT !.dl.gotMeta = TRUE]
        pr == parseHttpRangeResponse(ba)
        wp == [w EXCEPT !.dl.rangeStart = pr.start, !.dl.rangeSize = pr.size]
    IN  IF status = 206
        THEN IF Len(ba) # 0 /\ ~pr.ok
             THEN namFailed(wp, "Invalid HTTP response range")
             ELSE OnMetaDataChanged(wp)
        ELSE IF status # 200 /\ status # 203
        THEN namFailed([w EXCEPT !.dl.rangeStart = 0, !.dl.rangeSize = 0],
                       "Unexpected HTTP status")
        ELSE OnMetaDataChanged(w)

NAMMetaData ==
    /\ FsdLive
    /\ dl.kind = "NAM" /\ dl.reply = "live" /\ dl.running /\ ~dl.gotMeta
    /\ \E status \in HttpStatuses, ba \in ContentRanges :
          Step("NAMmetaDataChanged", NAMOnMetaData(World, status, ba))

\* the transport buffers one more byte and the orchestrator forwards readyRead
Deliver(w) ==
    [w EXCEPT !.dl.buf = Append(@, w.log.delivered + 1),
              !.log.delivered = @ + 1]

NAMReadyRead ==
    /\ FsdLive
    /\ dl.kind = "NAM" /\ dl.reply = "live" /\ dl.running /\ dl.gotMeta
    /\ log.delivered < MaxBytes
    /\ Step("NAMreadyRead", Deliver(World))

\* the lambda connected to QNetworkReply::finished
NAMOnFinished(w0, noError, peers) ==
    LET w == [w0 EXCEPT !.dl.running = FALSE]
    IN  IF noError THEN OnDisconnected(w) ELSE OnFailed(w, peers)

NAMFinished ==
    /\ FsdLive
    /\ dl.kind = "NAM" /\ dl.reply = "live" /\ dl.running
    /\ \E noError \in BOOLEAN, peers \in StartEnvs :
          /\ noError => dl.gotMeta
          /\ Step("NAMfinished", NAMOnFinished(World, noError, peers))

\* ranges a peer may grant when it accepts the file
AcceptedRanges == {<<0, 0>>, <<1, 1>>}

\* the lambda connected to Application::connectionReady
JingleOnConnectionReady(w, r) ==
    OnMetaDataChanged([w EXCEPT !.dl.rangeStart = r[1],
                                !.dl.rangeSize = r[2],
                                !.dl.connection = TRUE,
                                !.dl.active = TRUE,
                                !.dl.gotMeta = TRUE])

JingleConnectionReady ==
    /\ FsdLive
    /\ dl.kind = "Jingle" /\ dl.app /\ ~dl.connection /\ ~dl.declined
    /\ \E r \in AcceptedRanges :
          Step("JingleConnectionReady", JingleOnConnectionReady(World, r))

JingleReadyRead ==
    /\ FsdLive
    /\ dl.kind = "Jingle" /\ dl.app /\ dl.connection /\ dl.active
    /\ log.delivered < MaxBytes
    /\ Step("JingleReadyRead", Deliver(World))

\* the lambda connected to Session::newContentReceived
JingleOnNewContent(w) ==
    [w EXCEPT !.dl.lastError = "Unexpected incoming content",
              !.dl.declined = TRUE]

JingleNewContent ==
    /\ FsdLive
    /\ dl.kind = "Jingle" /\ dl.app /\ ~dl.declined
    /\ Step("JingleNewContent", JingleOnNewContent(World))

\* the lambda connected to Application::stateChanged, for State::Finished
JingleOnStateFinished(w0, reasonSuccess) ==
    LET w == [w0 EXCEPT !.dl.app = FALSE, !.dl.active = FALSE]
    IN  IF reasonSuccess THEN OnDisconnected(w)
        ELSE downloadError(w, "Jingle download failed")

JingleStateFinished ==
    /\ FsdLive
    /\ dl.kind = "Jingle" /\ dl.app
    /\ \E reasonSuccess \in BOOLEAN :
          /\ reasonSuccess => (dl.connection /\ ~dl.declined)
          /\ Step("JingleStateFinished",
                  JingleOnStateFinished(World, reasonSuccess))

\* a ranged request is kept as it was asked
BOBKeepRange(w) == w

\* there is no ranged inline blob: the callback makes the adapter not-ranged
BOBResetRange(w) ==
    IF DlIsRanged(w.dl)
    THEN [w EXCEPT !.dl.rangeStart = 0, !.dl.rangeSize = 0]
    ELSE w

\* the callback given to loadBob: n bytes arrive; the consumer may read
\* syncRead bytes from inside its metaDataChanged slot
BOBOnLoaded(w, ok, n, syncRead) ==
    LET w0 == [w EXCEPT !.dl.loading = FALSE]
        w1 == [w0 EXCEPT !.dl.connected = TRUE]
        w2 == BOBResetRange([w1 EXCEPT !.dl.buf = [i \in 1..n |-> i],
                                       !.dl.gotMeta = TRUE,
                                       !.log.delivered = n])
        w3 == OnMetaDataChanged(w2)
        w4 == IF syncRead > 0 /\ w3.fsd.openMode = "ReadOnly"
              THEN readData(w3, syncRead)
              ELSE w3
    IN  IF w.dl.destroyed THEN w0
        ELSE IF ~ok
        THEN downloadError(w1, "Download using Bits Of Binary failed")
        ELSE OnDisconnected([w4 EXCEPT !.dl.connected = FALSE])

BOBLoaded ==
    /\ FsdLive
    /\ dl.kind = "BOB" /\ dl.loading
    /\ \E ok \in BOOLEAN, n \in 1..MaxBytes, syncRead \in 0..MaxBytes :
          Step("BOBLoaded", BOBOnLoaded(World, ok, n, syncRead))

Next ==
    \/ Download
    \/ Open
    \/ Pull
    \/ Abort
    \/ Destroy
    \/ DeliverFailed
    \/ NAMMetaData
    \/ NAMReadyRead
    \/ NAMFinished
    \/ JingleConnectionReady
    \/ JingleReadyRead
    \/ JingleNewContent
    \/ JingleStateFinished
    \/ BOBLoaded

Spec == SessionInit /\ [][Next]_vars

\* The items of one digest: every way to construct a FileSharingItem meets
\* every state of the cache entry; the documents directory is the default one.
ItemSources == {<<>>, <<UriHttp>>}

ItemInit ==
    /\ cache \in {NoEntry} \cup CacheEntries
    /\ hfu = 0
    /\ fsd = NoFsd
    /\ dl = NoDl
    /\ log = NoLog
    /\ env = EnvDefault
    /\ \/ cache.present /\ item = ItemFromCache(cache)
       \/ item = ItemFromData(cache)
       \/ item = ItemFromFile(cache)
       \/ \E srcs \in ItemSources, size \in DeclaredSizes :
             item = ItemFromMediaSharing(srcs, size, cache)

\* delete item
DestroyItem ==
    /\ Running
    /\ \E ub \in UbOutcomes : Step("destroyItem", ItemDestroy(World, ub))

\* the sources are web sources, and the streams are read to their end
ItemNext ==
    \/ DestroyItem
    \/ Download
    \/ DownloadAgain
    \/ Open
    \/ Pull
    \/ Destroy
    \/ DeliverFailed
    \/ NAMMetaData
    \/ NAMReadyRead
    \/ NAMFinished
    \/ Publish
    \/ UploadFinished

SpecItem == ItemInit /\ [][ItemNext]_vars

\* An item announced to a peer: the item's sources are any list; the account
\* builds the descriptor, the peer makes an item of it and downloads, and its
\* sources fail one after the other.
RefInit ==
    /\ cache = NoEntry
    /\ hfu = 0
    /\ fsd = NoFsd
    /\ dl = NoDl
    /\ log = NoLog
    /\ env = EnvDefault
    /\ \E srcs \in SourceLists : item = ItemFromMediaSharing(srcs, MaxBytes, cache)

\* the application calls item->toReference()
ToReference ==
    /\ Running
    /\ ~log.reference.called
    /\ \E hasResource \in BOOLEAN :
          Step("toReference", toReference(World, hasResource))

\* the peer constructs its item from the descriptor it was sent; from here on
\* the variables hold the peer's objects
Receive ==
    /\ Running
    /\ log.reference.valid
    /\ fsd.state = "none"
    /\ item.uris # log.reference.sources
    /\ Step("receive",
            [World EXCEPT
                !.item = ItemFromMediaSharing(log.reference.sources, MaxBytes,
                                              NoEntry)])

\* the peer downloads the announced item
DownloadReceived ==
    /\ item.uris = log.reference.sources
    /\ Download

RefNext ==
    \/ ToReference
    \/ Receive
    \/ DownloadReceived
    \/ Open
    \/ DeliverFailed
    \/ NAMFinished
    \/ JingleStateFinished
    \/ BOBLoaded

SpecRef == RefInit /\ [][RefNext]_vars

\* ------------------------------------------------------ download session
AllTrue(q) == \A i \in 1..Len(q) : q[i]

\* the active source reported metadata, delivered bytes and disconnected
\* cleanly, the consumer has read all of them, no staging write failed and
\* nobody called abort()
CleanEnd ==
    /\ FsdLive
    /\ dl.kind # "None"
    /\ log.metaDataChanged > 0
    /\ log.delivered > 0
    /\ log.disconnected > 0
    /\ DlBytesAvailable(dl) = 0
    /\ ~log.ioError
    /\ ~log.aborted

\* the download was reported finished by something else than a disconnect
\* (a source failure, no source left, a staging file that does not open),
\* a staging write failed, or abort() stopped an adapter
FailureReached ==
    \/ log.ioError
    \/ log.aborted
    \/ log.finished # <<>> /\ ~log.finished[1] /\ log.disconnected = 0

\* the consumer reads while the stream has bytes for it
PullAvailable ==
    /\ dl.kind # "None"
    /\ DlBytesAvailable(dl) > 0
    /\ Pull

\* every started adapter ends up signalling, a queued failed() is delivered,
\* and the consumer keeps reading while bytes are available
LiveSpec ==
    /\ Spec
    /\ WF_vars(DeliverFailed)
    /\ WF_vars(NAMFinished)
    /\ WF_vars(JingleStateFinished)
    /\ WF_vars(BOBLoaded)
    /\ WF_vars(PullAvailable)

\* C1: a stream opened for reading is eventually reported finished, unless
\* the application aborts or deletes it.
C1Terminates ==
    (FsdLive /\ fsd.openMode = "ReadOnly")
        ~> (log.finished # <<>> \/ log.aborted \/ ~FsdLive)

\* C2: when the first source failed before any metadata and the second one
\* reported metadata, streamed and disconnected cleanly, the download has
\* ended with success only, and range() is what the second adapter reported.
C2Fallback ==
    (CleanEnd /\ Len(log.started) = 2 /\ log.failures = 1)
        => /\ fsd.success
           /\ log.finished # <<>>
           /\ AllTrue(log.finished)
           /\ <<fsd.rangeStart, fsd.rangeSize>> = <<dl.rangeStart, dl.rangeSize>>

\* C3: a failed() handled once metadata was reported ends the download with
\* failure: no source is taken from the list and no adapter is started.
C3NoFallback ==
    [][(fsd.metaReady /\ log.failures' = log.failures + 1)
          => /\ fsd'.uris = fsd.uris
             /\ log'.started = log.started
             /\ log'.finished = Append(log.finished, FALSE)
             /\ ~fsd'.success]_vars

\* the only started source failed after its metadata, with a source left
C3Witness ==
    /\ fsd.metaReady
    /\ log.metaDataChanged = 1
    /\ log.failures = 1
    /\ Len(log.started) = 1
    /\ fsd.uris # <<>>
    /\ log.finished = <<FALSE>>

\* C4: once the download failed or was aborted nothing sets success, and
\* success, once set, stays.
C4Absorbing ==
    /\ [][FailureReached => ~fsd'.success]_vars
    /\ [][fsd.success => fsd'.success]_vars

\* C5: after a clean end of the stream the staging file holds exactly the
\* delivered bytes in order and the download was reported finished with
\* success, and with success only.
C5Exhaustion ==
    CleanEnd
        => /\ fsd.staged = [i \in 1..log.delivered |-> i]
           /\ fsd.success
           /\ log.finished # <<>>
           /\ AllTrue(log.finished)

\* C6: success is declared at most once in a download session.
C6SuccessOnce == log.successDeclared <= 1

\* C7: abort() never faults, a second abort() changes nothing, and after
\* success it leaves success and fileName() as they are.
C7AbortSafe ==
    /\ ~log.faulted
    /\ FsdLive =>
          LET once == abort(World, "alive")
          IN  /\ abort(once, "alive") = once
              /\ fsd.success => /\ once.fsd.success
                                /\ FsdFileName(once.fsd) = FsdFileName(fsd)

\* C9: with inline-blob sources only and a ranged request, the effective
\* range is (0, 0) whenever metadata was reported.
C9BlobDowngrade ==
    (/\ log.created # <<>>
     /\ item.uris # <<>>
     /\ \A i \in 1..Len(item.uris) : sourceType(item.uris[i]) = "BOB"
     /\ log.created[1].rangeStart # 0 \/ log.created[1].rangeSize # 0
     /\ log.metaDataChanged > 0)
        => fsd.rangeStart = 0 /\ fsd.rangeSize = 0

\* a ranged request of an inline blob reported its metadata
C9Witness ==
    /\ log.created # <<>>
    /\ item.uris = <<UriBob>>
    /\ log.created[1].rangeStart = 1
    /\ log.metaDataChanged > 0
    /\ fsd.tmpFile
    /\ fsd.rangeStart = 0 /\ fsd.rangeSize = 0

\* ------------------------------------------------------------ the item
\* the orchestrator a download() call created, without the request it was
\* called with
Made(w) ==
    LET m == w.log.created[Len(w.log.created)]
    IN  <<m.rangeStart, m.rangeSize, m.tracked,
          [w EXCEPT !.log.created = <<>>]>>

\* C8: on an item of known size S, download(true, 0, S) creates what
\* download(false) creates: an orchestrator with requested range (0, 0),
\* tracked by the item when the unranged one would be, in the same item.
C8Normalization ==
    (Running /\ "SizeKnown" \in item.flags)
        => LET whole == download(World, TRUE, 0, item.fileSize)
           IN  /\ Made(whole) = Made(download(World, FALSE, 0, 0))
               /\ Made(whole)[1] = 0
               /\ Made(whole)[2] = 0

\* download(true, 0, S) was called on an item of size S, the item tracked the
\* orchestrator, and its file went to the cache when it succeeded
C8Witness ==
    /\ "SizeKnown" \in item.flags
    /\ log.created # <<>>
    /\ log.created[1] = [isRanged |-> TRUE, start |-> 0, size |-> item.fileSize,
                         rangeStart |-> 0, rangeSize |-> 0, tracked |-> TRUE]
    /\ log.downloadFinished = 1
    /\ cache.present
    /\ cache.src = FileBase
    /\ cache.ttl = "FILE_TTL"

\* C10: publish() on an item whose HttpFinished and JingleFinished flags are
\* set starts no upload, writes no cache entry, changes no field of the item
\* and emits no publishFinished.
C10PublishIdempotent ==
    (/\ Running
     /\ item.fileType # "RemoteFile"
     /\ {"HttpFinished", "JingleFinished"} \subseteq item.flags)
        => \A discoNotFound \in BOOLEAN : publish(World, discoNotFound) = World

\* publish() was called on an item that had been published after an upload
C10Witness ==
    /\ log.lastOp = "republish"
    /\ log.uploads = 1
    /\ hfu = 0
    /\ log.publishFinished = 1
    /\ cache.writes = 1

\* C11: once publish() was called on an item and no upload is in flight,
\* publishFinished was emitted exactly once.
C11PublishedOnce ==
    (Running /\ log.publishCalled /\ hfu = 0) => log.publishFinished = 1

\* the path a cache entry stands for: its link, or its file in the cache
EntryPath(entry) ==
    IF entry.link = <<>> THEN CacheDir \o entry.file ELSE entry.link

C13OpenRejectsEmpty ==
    (log.openRet # "none" /\ sortSourcesByPriority(item.uris) = <<>>)
        => log.openRet = "false" /\ log.started = <<>>

C15Cleared ==
    /\ item.downloader = "fsd"
          => /\ fsd.state \notin {"none", "deleteLater", "destroyed"}
             /\ log.finished = <<>>
    /\ (Running /\ item.downloader = "null")
          => LET w == download(World, FALSE, 0, 0)
             IN  /\ w.item.downloader # "null"
                 /\ w.log.created[Len(w.log.created)].tracked

\* the kept download finished, and the next whole-file download() was kept
C15Witness ==
    /\ Len(log.created) = 2
    /\ log.created[1].tracked
    /\ log.created[2].tracked
    /\ log.downloadFinished = 1
    /\ log.finished # <<>>
    /\ item.downloader = "other"

\* C16: the file a successful tracked download moves into the cache is the
\* staging file, the one the bytes were written to.
C16HandOff ==
    (cache.present /\ log.downloadFinished > 0)
        => cache.src = StagingName(fsd.dstFileName)

\* C17: a destroyed item removed a file only if it was still a TempFile, and
\* then its own temporary file: never the cache entry's file or link, never
\* the file of a LocalFile, LocalLink or RemoteFile item; a TempFile item that
\* wrote a temporary file and was not promoted removed it.
C17DestructorSafe ==
    ~item.alive
        => /\ log.removed # <<>>
                 => item.fileType = "TempFile" /\ log.removed = TempPath
           /\ cache.present => log.removed # EntryPath(cache)
           /\ log.removed \notin {LocalPath, LinkPath}
           /\ (item.tmpWritten /\ item.fileType = "TempFile")
                 => log.removed = TempPath

\* an item made from a blob was published, which moved its temporary file
\* into the cache, and then destroyed
C17Witness ==
    /\ ~item.alive
    /\ item.tmpWritten
    /\ item.fileType = "LocalFile"
    /\ item.fileName = CacheDir \o CacheFile
    /\ log.publishFinished = 1
    /\ log.removed = <<>>

\* readyRead was forwarded for the active adapter (an inline blob sends none)
ReadyReadForwarded ==
    dl.kind \in {"NAM", "Jingle"} /\ log.delivered > 0

\* C18: no step forwards disconnected or readyRead in a session whose
\* metaDataChanged was not forwarded, and once finished was emitted no step
\* forwards or emits anything more.
C18Ordering ==
    [][/\ (log.disconnected > 0 \/ ReadyReadForwarded)'
             => log'.metaDataChanged > 0
       /\ log.finished # <<>>
             => /\ log'.finished = log.finished
                /\ log'.metaDataChanged = log.metaDataChanged
                /\ log'.disconnected = log.disconnected
                /\ ReadyReadForwarded' => log'.delivered = log.delivered]_vars

\* the error texts of the protocol violations the adapters detect
ProtocolViolations ==
    {"Invalid Jingle-FT URI", "Invalid HTTP response range",
     "Unexpected incoming content"}

\* C19: a failed() whose adapter reports a protocol violation ends the
\* download with failure and starts no further adapter, even before metadata.
C19ViolationTerminal ==
    [][(log'.failures = log.failures + 1 /\ dl.lastError \in ProtocolViolations)
          => /\ log'.started = log.started
             /\ log'.finished = Append(log.finished, FALSE)]_vars

\* the adapter of world w is in the state its abort() leaves it in; the
\* abort() of a peer transfer whose session is over (app null) does nothing
DlAborted(w) ==
    CASE w.dl.kind = "NAM" -> w.dl.reply = "null" /\ ~w.dl.running
      [] w.dl.kind = "Jingle" -> ~w.dl.app /\ ~DlIsConnected(w.dl)
      [] w.dl.kind = "BOB" -> w.dl.destroyed

\* C20: a pull whose write to the staging file stores fewer bytes than were
\* read from the adapter aborts the adapter, records the staging file's error
\* text, emits no finished() and returns zero bytes.
C20ShortWrite ==
    \A maxSize \in 1..MaxBytes :
        (/\ FsdLive /\ fsd.openMode = "ReadOnly"
         /\ fsd.tmpFile /\ dl.kind # "None"
         /\ DlReadCount(dl, maxSize) > env.room)
            => LET w == readData(World, maxSize)
               IN  /\ DlAborted(w)
                   /\ w.fsd.lastError = "staging file error"
                   /\ w.log.finished = log.finished
                   /\ w.fsd.success = fsd.success
                   /\ Len(w.fsd.staged) = Len(fsd.staged) + env.room
                   /\ readDataReturns(World, maxSize) = 0

\* a short write has happened on an opened staging file
C20Witness ==
    /\ log.ioError /\ fsd.tmpFile
    /\ fsd.lastError = "staging file error"
    /\ dl.kind # "None" /\ DlAborted(World)

\* C21: when the staging file does not open as the active adapter reports
\* its metadata, that step aborts the adapter and emits finished with failure
\* and the file's error text, forwards no metaDataChanged, leaves the
\* orchestrator's range and source list alone and starts no adapter; nor does
\* any later step of the session start one or forward metaDataChanged.
C21StagingOpenTerminal ==
    [][/\ (~env.canCreate /\ ~fsd.metaReady /\ fsd'.metaReady)
             => /\ DlAborted(World')
                /\ Len(log'.finished) > Len(log.finished)
                /\ ~log'.finished[Len(log'.finished)]
                /\ ~fsd'.success
                /\ fsd'.lastError = "staging file error"
                /\ ~fsd'.tmpFile
                /\ log'.metaDataChanged = log.metaDataChanged
                /\ <<fsd'.rangeStart, fsd'.rangeSize>>
                       = <<fsd.rangeStart, fsd.rangeSize>>
                /\ fsd'.uris = fsd.uris
                /\ log'.started = log.started
       /\ (~env.canCreate /\ fsd.metaReady)
             => /\ log'.started = log.started
                /\ log'.metaDataChanged = 0
                /\ ~fsd'.success]_vars

\* the staging file did not open for the first of two sources, whose adapter
\* had been granted another range than the requested one
C21Witness ==
    /\ ~env.canCreate
    /\ fsd.metaReady
    /\ fsd.uris # <<>>
    /\ Len(log.started) = 1
    /\ log.finished = <<FALSE>>
    /\ fsd.lastError = "staging file error"
    /\ log.metaDataChanged = 0
    /\ dl.kind = "NAM"
    /\ <<dl.rangeStart, dl.rangeSize>> # <<fsd.rangeStart, fsd.rangeSize>>

\* C22: open() returns whatever files the documents directory holds, and the
\* destination name it chose is not the name of a file in that directory.
C22NameIsFree ==
    /\ fsd.state # "hung"
    /\ fsd.dstFileName # <<>> => fsd.dstFileName \notin env.docDir

Priority(uri) == SourceTypeInt(sourceType(uri))

\* the sources attempted so far are the first ones of the item's sources
\* ranked from highest priority down, one attempt per list entry, none of
\* unknown kind; the worklist holds the rest; the only adapter there is
\* belongs to the source attempted last
AttemptsRanked ==
    \E ranked \in {sortSourcesByPriority(item.uris)} :
        LET n == Len(log.started)
        IN  /\ n <= Len(ranked)
            /\ log.started = SubSeq(Reverse(ranked), 1, n)
            /\ \A i, j \in 1..n :
                  i < j => Priority(log.started[i]) >= Priority(log.started[j])
            /\ \A i \in 1..n : sourceType(log.started[i]) # "None"
            /\ (fsd.state # "none" /\ fsd.openMode # "NotOpen")
                  => fsd.uris = SubSeq(ranked, 1, Len(ranked) - n)
            /\ dl.kind # "None"
                  => /\ n > 0
                     /\ dl.uri = log.started[n]
                     /\ dl.kind = DlKindOf(sourceType(dl.uri))

\* a queued failed() is due before any metadata, with a source left: its
\* slot leaves the adapter start() makes of a newly constructed one for the
\* tail of the worklist, given the orchestrator's range, and nothing of the
\* adapter that failed
FallbackStartsAnew ==
    (FsdLive /\ dl.kind # "None" /\ dl.pendingFailed /\ ~fsd.metaReady
     /\ fsd.uris # <<>>)
        => \A peers \in StartEnvs :
              LET uri == fsd.uris[Len(fsd.uris)]
                  w   == OnFailed(World, peers)
              IN  /\ w.log.started = Append(log.started, uri)
                  /\ w.fsd.uris = SubSeq(fsd.uris, 1, Len(fsd.uris) - 1)
                  /\ w.dl = DlStart([w EXCEPT
                                        !.dl = NewDl(DlKindOf(sourceType(uri)),
                                                     uri, fsd.rangeStart,
                                                     fsd.rangeSize)], peers).dl

\* C23: the attempted sources are the head of the item's sources ranked by
\* descending priority, each list entry attempted at most once and none of
\* unknown kind, with one adapter at most; and the next attempt takes the tail
\* of the worklist and leaves a newly made adapter, nothing of the previous.
C23AttemptOrder == AttemptsRanked /\ FallbackStartsAnew

\* the descriptor listed an inline blob before a web source: the web source
\* was attempted first and failed, and the blob is being attempted
C23Witness ==
    /\ item.uris = <<UriBob, UriHttp>>
    /\ log.started = <<UriHttp, UriBob>>
    /\ log.failures = 1
    /\ dl.kind = "BOB"
    /\ fsd.uris = <<>>

\* the peer has made its item of the descriptor
Received == log.reference.valid /\ item.uris = log.reference.sources

NotSelf(uri) == uri # UriSelf

\* C24: the sources of a descriptor are the item's sources and the account's
\* own peer-transfer URI, priority-sorted and reversed; its primary URI is
\* the first of them; without the own URI they are in the order the item's
\* own orchestrator attempts them; the item's list is as before the call; and
\* the peer's orchestrator attempts the descriptor's sources in the listed
\* order, the primary URI first.
C24DualOrdering ==
    log.reference.valid
        => LET ref == log.reference
           IN  /\ ref.sources
                     = Reverse(sortSourcesByPriority(Append(ref.of, UriSelf)))
               /\ ref.uri = ref.sources[1]
               /\ \A i, j \in 1..Len(ref.sources) :
                     i < j => Priority(ref.sources[i]) >= Priority(ref.sources[j])
               /\ SelectSeq(ref.sources, NotSelf)
                     = Reverse(sortSourcesByPriority(ref.of))
               /\ ~Received => item.uris = ref.of
               /\ Received
                     => /\ log.started
                              = SubSeq(ref.sources, 1, Len(log.started))
                        /\ (fsd.state # "none" /\ fsd.openMode = "NotOpen")
                              => Reverse(fsd.uris) = ref.sources

\* the peer's orchestrator went through a descriptor of three sources, two of
\* them of the same kind
C24Witness ==
    /\ Received
    /\ log.reference.of = <<UriJingle, UriHttp>>
    /\ log.reference.sources = <<UriHttp, UriJingle, UriSelf>>
    /\ log.started = log.reference.sources
    /\ log.failures = 2

\* C25: the orchestrator's error text is the generic "no sources" one only
\* when no source was ever attempted.
C25ErrorSurfaced ==
    fsd.lastError = "Download sources are not given" => log.started = <<>>

\* C26: whatever Content-Range value a 206 response carries, the adapter
\* emits metaDataChanged (which sets the orchestrator's metaReady) exactly when
\* the value parses, its range then being the parsed one, and otherwise
\* signals failed.
C26PartialContent ==
    (FsdLive /\ dl.kind = "NAM" /\ dl.reply = "live" /\ dl.running /\ ~dl.gotMeta)
        => \A ba \in ContentRanges :
              LET pr == parseHttpRangeResponse(ba)
                  w  == NAMOnMetaData(World, 206, ba)
              IN  IF pr.ok
                  THEN /\ w.fsd.metaReady
                       /\ ~w.dl.pendingFailed
                       /\ <<w.dl.rangeStart, w.dl.rangeSize>> = <<pr.start, pr.size>>
                  ELSE /\ w.dl.pendingFailed
                       /\ w.fsd.metaReady = fsd.metaReady
                       /\ w.log.metaDataChanged = log.metaDataChanged

\* C27: when a web source answers 200 or 203, the adapter's range is (0, 0)
\* and so is the orchestrator's once metaDataChanged is forwarded, whatever
\* range was requested.
C27FullPayload ==
    (FsdLive /\ dl.kind = "NAM" /\ dl.reply = "live" /\ dl.running /\ ~dl.gotMeta)
        => \A status \in {200, 203}, ba \in ContentRanges :
              LET w == NAMOnMetaData(World, status, ba)
              IN  /\ <<w.dl.rangeStart, w.dl.rangeSize>> = <<0, 0>>
                  /\ w.log.metaDataChanged > log.metaDataChanged
                        => <<w.fsd.rangeStart, w.fsd.rangeSize>> = <<0, 0>>

\* C28: in a session whose adapter disconnected, with no failed() handled, no
\* staging file error and no abort(), every finished reported success, and
\* the item's finished handler moved the file into the cache.
C28NoPrematureFailure ==
    (/\ log.finished # <<>>
     /\ log.disconnected > 0
     /\ log.failures = 0
     /\ ~log.ioError
     /\ ~log.aborted)
        => /\ AllTrue(log.finished)
           /\ log.downloadFinished > 0 => cache.present

\* the URLs of upload slots among the item's sources
UploadedUrls == {i \in 1..Len(item.uris) : item.uris[i] = UriUpload}

\* C29: whatever publish() calls were made on an item, at most one upload was
\* started and at most one upload URL is among the item's sources.
C29OneUpload ==
    /\ log.uploads <= 1
    /\ hfu <= 1
    /\ Cardinality(UploadedUrls) <= 1

====
